---- MODULE Spec2Model ----
(***************************************************************************)
(* Model of orizonhub/telegrambot.py: the Telegram Bot API adapter.        *)
(*                                                                         *)
(* Two execution contexts share one TelegramBotProtocol object: "poll"     *)
(* runs start_polling, "out" is a bus worker calling status / send /       *)
(* forward.  bot_api, _make_message and servemedia are procedures run by   *)
(* either context; stack[t] holds the labels to return to.                 *)
(* Time is measured in ticks of 1/15 s so that rate (20/60 s), the idle    *)
(* delay (0.2 s) and the retry sleep ((att+1)*2 s) are whole numbers.      *)
(* The code only ever uses differences of time.perf_counter() values, so   *)
(* the model keeps clocks: since_sent is perf_counter() - last_sent and    *)
(* sleep[t] is what remains of the sleep or network wait t is blocked in.  *)
(* Clocks stop counting at Horizon, beyond every duration the code or a    *)
(* statement about it compares them with.                                  *)
(***************************************************************************)
EXTENDS Integers, Sequences, FiniteSets, TLC

VARIABLES
    run,        \* self.run
    since_sent, \* time.perf_counter() - self.last_sent, in ticks
    hsession,   \* generation of self.hsession (requests.Session objects)
    offset,     \* bus.state['tgapi.offset']
    dest,       \* self.dest
    identity,   \* self.identity
    pc,         \* position of each execution context
    stack,      \* return labels of each execution context
    sleep,      \* rest of the sleep / network wait a context is blocked in
    api,        \* locals of the bot_api call a context is running
    res,        \* value returned / exception raised by the last procedure
    hist,       \* per context: clocks since its last bot_api call completed
                \* (since) and since its loop iteration ended (iter)
    poll,       \* locals of start_polling
    posted,     \* update ids handed to bus.post during the current batch
    mm,         \* locals of _make_message / servemedia
    out,        \* the outbound operation in progress and its arguments
    fmt         \* locals of ircfmt2tgmd

vars == <<run, since_sent, hsession, offset, dest, identity, pc, stack,
          sleep, api, res, hist, poll, posted, mm, out, fmt>>

Workers == {"out", "out2"}

Threads == {"poll"} \cup Workers

None == 0 - 1

Max(a, b) == IF a >= b THEN a ELSE b

Min(a, b) == IF a <= b THEN a ELSE b

(***************************************************************************)
(* Bounds of the model.                                                    *)
(***************************************************************************)
MaxLatency == 3
MaxBatch == 2
MaxIdGap == 1
MaxOffset == 2
MaxSessions == 1
MaxRuns == 2
MaxLen == 4

(***************************************************************************)
(* Program constants, __init__ and the literals of the code.               *)
(***************************************************************************)
TicksPerSecond == 3 * 5

\* how long a request takes, in ticks: no time, or MaxLatency thirds of a
\* second
Latencies == {0, MaxLatency * (TicksPerSecond \div 3)}

\* self.rate = 20/60 (seconds): 5 ticks
rate == (20 * TicksPerSecond) \div 60

attempts == 2

\* no sleep at all at the end of an iteration
IdleDelay_none == (0 * TicksPerSecond) \div 10

\* time.sleep(.2)
IdleDelay == (2 * TicksPerSecond) \div 10

\* time.sleep((att+1) * 2)
RetrySleep(att) == (att + 1) * 2 * TicksPerSecond

\* wait = self.rate - time.perf_counter() + self.last_sent
RateWait(elapsed) == rate - elapsed

\* 1/rate seconds, the spacing of 20 calls per 60 seconds
Spacing == (60 * TicksPerSecond) \div 20

Horizon == Spacing

\* a loop test that forgets self.run
LoopTest_norun(att, running) == att <= attempts

\* the condition of "while att <= self.attempts and self.run"
LoopTest(att, running) == att <= attempts /\ running

\* a retry budget that is one short
AttemptsLeft_short(att) == att + 1 < attempts

\* "if att < self.attempts" in the except branch
AttemptsLeft(att) == att < attempts

DestId == 20
OtherId == 30
BotId == 7

(***************************************************************************)
(* Values exchanged with the remote API.                                   *)
(***************************************************************************)
NoRes == [kind |-> "none"]

NoCall == [method |-> "none", chat_id |-> None, reply_to |-> None,
           text |-> <<>>, parse_mode |-> "none", form |-> "none",
           att |-> 0, got |-> FALSE,
           ok |-> FALSE, result |-> NoRes, reqs |-> 0, sess |-> 0,
           gap |-> None, live |-> FALSE]

NoParams == [chat_id |-> None, reply_to |-> None, text |-> <<>>,
             parse_mode |-> "none", form |-> "none"]

Distinct(b) == \A i, j \in DOMAIN b : i # j => b[i].update_id # b[j].update_id

\* the update lists getUpdates may return when asked for offset o: update
\* ids are unique and not below the requested offset, in any order; no id
\* reaches MaxOffset
Batches(o) ==
    {b \in UNION {[1..n -> [update_id : o..Min(o + MaxIdGap, MaxOffset - 1),
                            message : BOOLEAN]]
                     : n \in 1..MaxBatch} : Distinct(b)}

MediaOfMethod(m) ==
    CASE m = "sendPhoto" -> "photo"
      [] m = "sendAudio" -> "audio"
      [] m = "sendDocument" -> "document"
      [] m = "sendSticker" -> "sticker"
      [] m = "sendVideo" -> "video"
      [] m = "sendVoice" -> "voice"
      [] m = "sendLocation" -> "location"
      [] OTHER -> "none"

\* the 'result' payloads the remote API can put in an ok envelope
ResultsOf(a, o) ==
    CASE a.method = "getMe" -> {[kind |-> "user", id |-> BotId]}
      [] a.method = "getUpdates" ->
            {[kind |-> "updates", list |-> b] : b \in Batches(o) \cup {<<>>}}
      [] a.method = "getFile" ->
            {[kind |-> "file", file_path |-> p] : p \in BOOLEAN}
      [] a.method = "sendChatAction" -> {[kind |-> "true"]}
      [] OTHER -> {[kind |-> "message", chat |-> a.chat_id,
                    media |-> MediaOfMethod(a.method)]}

ErrorBody == [kind |-> "error"]

(***************************************************************************)
(* bot_api (lines 206-231).                                                *)
(***************************************************************************)
Blocking == {"api_top", "api_http", "api_sleep", "idle"}

ApiPcs == {"api_top", "api_http", "api_sleep", "api_exit"}

Ready(t) == sleep[t] = 0

\* return from a procedure: resume the caller at the label on the stack
Return(t, r) ==
    /\ pc' = [pc EXCEPT ![t] = Head(stack[t])]
    /\ stack' = [stack EXCEPT ![t] = Tail(@)]
    /\ res' = [res EXCEPT ![t] = r]

\* entry of bot_api: lines 207-211.  Part of the caller's step.
Call(t, method, params, label) ==
    /\ api' = [api EXCEPT ![t] =
                 [NoCall EXCEPT !.method = method, !.chat_id = params.chat_id,
                                !.reply_to = params.reply_to,
                                !.text = params.text,
                                !.parse_mode = params.parse_mode,
                                !.form = params.form,
                                !.att = 1, !.live = run]]
    /\ sleep' = [sleep EXCEPT ![t] = Max(0, RateWait(since_sent))]
    /\ pc' = [pc EXCEPT ![t] = "api_top"]
    /\ stack' = [stack EXCEPT ![t] = <<label>> \o @]

\* lines 212-215: the loop test holds and the request is posted
ApiPost(t) ==
    /\ pc[t] = "api_top" /\ Ready(t)
    /\ LoopTest(api[t].att, run)
    /\ \E lat \in Latencies : sleep' = [sleep EXCEPT ![t] = lat]
    /\ api' = [api EXCEPT ![t].reqs = @ + 1,
                          ![t].gap = IF api[t].reqs = 0 /\ hist[t].prev
                                     THEN hist[t].since ELSE @]
    /\ pc' = [pc EXCEPT ![t] = "api_http"]
    /\ UNCHANGED <<run, since_sent, hsession, offset, dest, identity,
                   stack, res, hist, poll, posted, mm, out, fmt>>

\* line 212: the loop test fails: close() was called
ApiAbort(t) ==
    /\ pc[t] = "api_top" /\ Ready(t)
    /\ ~LoopTest(api[t].att, run)
    /\ pc' = [pc EXCEPT ![t] = "api_exit"]
    /\ UNCHANGED <<run, since_sent, hsession, offset, dest, identity,
                   stack, sleep, api, res, hist, poll, posted, mm, out, fmt>>

\* lines 216-218: a JSON envelope is received and decoded; break
ApiRecv(t) ==
    /\ pc[t] = "api_http" /\ Ready(t)
    /\ \/ \E r \in ResultsOf(api[t], offset) :
            api' = [api EXCEPT ![t].got = TRUE, ![t].ok = TRUE,
                               ![t].result = r]
       \/ api' = [api EXCEPT ![t].got = TRUE, ![t].ok = FALSE,
                             ![t].result = ErrorBody]
    /\ pc' = [pc EXCEPT ![t] = "api_exit"]
    /\ UNCHANGED <<run, since_sent, hsession, offset, dest, identity,
                   stack, sleep, res, hist, poll, posted, mm, out, fmt>>

\* lines 219-224: the request fails at transport level (timeout, connection
\* error, undecodable body)
ApiFail(t) ==
    /\ pc[t] = "api_http" /\ Ready(t)
    /\ IF AttemptsLeft(api[t].att)
       THEN /\ pc' = [pc EXCEPT ![t] = "api_sleep"]
            /\ sleep' = [sleep EXCEPT ![t] = RetrySleep(api[t].att)]
            /\ UNCHANGED <<stack, res, hist>>
       ELSE /\ Return(t, [kind |-> "TransportError"])
            /\ hist' = [hist EXCEPT ![t].prev = FALSE]
            /\ UNCHANGED sleep
    /\ UNCHANGED <<run, since_sent, hsession, offset, dest, identity,
                   api, poll, posted, mm, out, fmt>>

\* lines 350-354: a new requests.Session replaces the old one
change_session(h) == (h + 1) % (MaxSessions + 1)

\* lines 221-225: the retry sleep is over; change_session; att += 1
ApiRetry(t) ==
    /\ pc[t] = "api_sleep" /\ Ready(t)
    /\ hsession' = change_session(hsession)
    /\ api' = [api EXCEPT ![t].att = @ + 1, ![t].sess = @ + 1]
    /\ pc' = [pc EXCEPT ![t] = "api_top"]
    /\ UNCHANGED <<run, since_sent, offset, dest, identity, stack, sleep,
                   res, hist, poll, posted, mm, out, fmt>>

\* an outcome that never looks at the ok flag
ApiOutcome_unchecked(a) ==
    IF ~a.got THEN [kind |-> "BotAPIFailed",
                    val |-> [kind |-> "aborted", att |-> a.att]]
    ELSE [kind |-> "ok", val |-> a.result]

\* lines 227-231: what bot_api raises or returns for the decoded envelope
ApiOutcome(a) ==
    IF ~a.got THEN [kind |-> "BotAPIFailed",
                    val |-> [kind |-> "aborted", att |-> a.att]]
    ELSE IF ~a.ok THEN [kind |-> "BotAPIFailed",
                        val |-> [ok |-> a.ok, body |-> a.result]]
    ELSE [kind |-> "ok", val |-> a.result]

\* lines 226-231: last_sent = perf_counter(), then raise or return
ApiExit(t) ==
    /\ pc[t] = "api_exit"
    /\ since_sent' = 0
    /\ hist' = [hist EXCEPT ![t].prev = TRUE, ![t].since = 0]
    /\ Return(t, ApiOutcome(api[t]))
    /\ UNCHANGED <<run, hsession, offset, dest, identity, sleep, api,
                   poll, posted, mm, out, fmt>>

\* close (lines 203-204), called by the bus from another context
close ==
    /\ run
    /\ run' = FALSE
    /\ UNCHANGED <<since_sent, hsession, offset, dest, identity, pc,
                   stack, sleep, api, res, hist, poll, posted, mm, out, fmt>>

\* time passes until the end of some context's sleep or network wait
Advance ==
    /\ \E t \in Threads :
         /\ pc[t] \in Blocking
         /\ sleep[t] > 0
         /\ sleep' = [u \in Threads |-> Max(0, sleep[u] - sleep[t])]
         /\ since_sent' = Min(Horizon, since_sent + sleep[t])
         /\ hist' = [u \in Threads |->
                       [hist[u] EXCEPT !.since = Min(Horizon, @ + sleep[t]),
                                       !.iter = IF u = "poll" /\ pc[u] \in {"idle", "loop_top"}
                                                THEN Min(Horizon, @ + sleep[t])
                                                ELSE @]]
    /\ UNCHANGED <<run, hsession, offset, dest, identity, pc, stack, api,
                   res, poll, posted, mm, out, fmt>>

(***************************************************************************)
(* Model Mapper and Media Resolver: _make_user, _make_message, servemedia, *)
(* _parse_media (lines 251-348).                                           *)
(***************************************************************************)
MediaKinds == {"none", "new_chat_title", "photo", "document", "location"}

Chats == {[id |-> DestId, type |-> "supergroup", title |-> "renamed"],
          [id |-> OtherId, type |-> "private", title |-> "user"],
          [id |-> OtherId, type |-> "channel", title |-> "chan"]}

NoObj == [valid |-> FALSE, chat |-> [id |-> None, type |-> "none", title |-> "none"],
          media |-> "none", reply |-> FALSE]

\* message payloads of the remote API; valid = FALSE is a payload the mapper
\* cannot index (a required key such as 'chat' is missing)
Payloads(replies) ==
    {[valid |-> TRUE, chat |-> c, media |-> m, reply |-> r] :
        c \in Chats, m \in MediaKinds, r \in replies}
    \cup {NoObj}

NoDesc == [tag |-> "none", extra |-> "none", link |-> FALSE, fault |-> "none"]

\* _make_message(None), and the value of a missing Message
NoMsg == [kind |-> "None", chat |-> None, mtype |-> "none",
          media |-> "none", alttext |-> NoDesc, reply |-> FALSE]

NoMm == [obj |-> NoObj, depth |-> 0, mtype |-> "none", desc |-> NoDesc,
         outer |-> NoMsg]

\* _make_user, lines 334-348
make_user(c) ==
    [type |-> IF c.type = "private" THEN "user"
              ELSE IF c.type \in {"group", "supergroup"} THEN "group"
              ELSE "channel",
     pid |-> c.id, name |-> c.title]

\* a comparison of display names instead of platform ids
ContextKind_byname(chat, d) ==
    IF chat.name = d.name THEN "group"
    ELSE IF chat.type = "user" THEN "private"
    ELSE "othergroup"

\* lines 312-319
ContextKind(chat, d) ==
    IF chat.pid = d.pid THEN "group"
    ELSE IF chat.type = "user" THEN "private"
    ELSE "othergroup"

\* lines 283-296: the type tag and what follows it
Describe(media) ==
    [tag |-> media,
     extra |-> CASE media = "new_chat_title" -> "title"
                 [] media = "document" -> "file_name"
                 [] media \in {"video", "voice"} -> "duration"
                 [] media = "location" -> "map"
                 [] media = "sticker" -> "emoji"
                 [] OTHER -> "none",
     link |-> FALSE, fault |-> "none"]

\* lines 252-266: does _parse_media find a file to resolve
HasFile(media) ==
    media \in {"audio", "document", "sticker", "video", "voice", "photo"}

\* a try block without the final "except Exception"
Swallowed_narrow(exc) == exc \in {"TypeError", "NotImplementedError"}

\* lines 299-304: the exceptions the try block of servemedia swallows
Swallowed(exc) ==
    exc \in {"TypeError", "NotImplementedError", "BotAPIFailed",
             "TransportError", "Exception"}

\* what paste_url can do: return a URL or raise
PasteOutcomes == {"url", "NotImplementedError", "Exception"}

\* lines 320-331: the Message built once the media description is known
MakeMsg(m) ==
    IF m.depth = 0
    THEN [kind |-> "Message", chat |-> m.obj.chat.id, mtype |-> m.mtype,
          media |-> m.obj.media, alttext |-> m.desc, reply |-> FALSE]
    ELSE [m.outer EXCEPT !.reply = TRUE]

\* entry of _make_message: the caller's step stores the payload
MmEnter(t, obj, label) ==
    /\ mm' = [mm EXCEPT ![t] = [NoMm EXCEPT !.obj = obj]]
    /\ pc' = [pc EXCEPT ![t] = "mm_begin"]
    /\ stack' = [stack EXCEPT ![t] = <<label>> \o @]

\* an exception leaves _make_message: unwind to the caller
MmRaise(t, exc) ==
    /\ Return(t, [kind |-> exc])
    /\ mm' = [mm EXCEPT ![t] = NoMm]

\* lines 310-321 and 281-298: map the chat, refresh dest, start servemedia
MmBegin(t) ==
    /\ pc[t] = "mm_begin"
    /\ LET obj == mm[t].obj
           chat == make_user(obj.chat)
           desc == Describe(obj.media)
           m1 == [mm EXCEPT ![t].mtype = ContextKind(chat, dest)]
       IN  IF ~obj.valid
           THEN /\ MmRaise(t, "KeyError")
                /\ UNCHANGED <<dest, api, sleep>>
           ELSE /\ dest' = IF chat.pid = dest.pid THEN chat ELSE dest
                /\ IF obj.media = "none"
                   THEN /\ mm' = m1
                        /\ pc' = [pc EXCEPT ![t] = "mm_reply"]
                        /\ UNCHANGED <<stack, api, sleep, res>>
                   ELSE IF obj.media = "new_chat_title"
                   THEN /\ mm' = [m1 EXCEPT ![t].desc = desc]
                        /\ pc' = [pc EXCEPT ![t] = "mm_reply"]
                        /\ UNCHANGED <<stack, api, sleep, res>>
                   ELSE IF HasFile(obj.media)
                   THEN /\ mm' = [m1 EXCEPT ![t].desc = desc]
                        /\ Call(t, "getFile", NoParams, "mm_file")
                        /\ UNCHANGED res
                   ELSE \* _parse_media returns None: TypeError
                        IF Swallowed("TypeError")
                        THEN /\ mm' = [m1 EXCEPT ![t].desc = desc]
                             /\ pc' = [pc EXCEPT ![t] = "mm_reply"]
                             /\ UNCHANGED <<stack, api, sleep, res>>
                        ELSE /\ MmRaise(t, "TypeError")
                             /\ UNCHANGED <<api, sleep>>
    /\ UNCHANGED <<run, since_sent, hsession, offset, identity, hist,
                   poll, posted, out, fmt>>

\* lines 268-275 and 298-304: getFile has returned or raised; paste_url
MmFile(t) ==
    /\ pc[t] = "mm_file"
    /\ \E paste \in PasteOutcomes :
         LET exc == IF res[t].kind # "ok" THEN res[t].kind
                    ELSE IF ~res[t].val.file_path THEN "BotAPIFailed"
                    ELSE IF paste # "url" THEN paste
                    ELSE "none"
             why == IF res[t].kind # "ok" THEN "getFile"
                    ELSE IF ~res[t].val.file_path THEN "file_path"
                    ELSE IF paste # "url" THEN "paste_url"
                    ELSE "none"
         IN  IF exc = "none"
             THEN /\ mm' = [mm EXCEPT ![t].desc.link = TRUE]
                  /\ pc' = [pc EXCEPT ![t] = "mm_reply"]
                  /\ res' = [res EXCEPT ![t] = NoRes]
                  /\ UNCHANGED stack
             ELSE IF Swallowed(exc)
             THEN /\ mm' = [mm EXCEPT ![t].desc.fault = why]
                  /\ pc' = [pc EXCEPT ![t] = "mm_reply"]
                  /\ res' = [res EXCEPT ![t] = NoRes]
                  /\ UNCHANGED stack
             ELSE MmRaise(t, exc)
    /\ api' = [api EXCEPT ![t] = NoCall]
    /\ UNCHANGED <<run, since_sent, hsession, offset, dest, identity,
                   sleep, hist, poll, posted, out, fmt>>

\* lines 324-331: map the reply target (same function, one level: the
\* remote API does not nest reply_to_message further, and a reply target
\* is a message of the same chat), build the Message
MmReply(t) ==
    /\ pc[t] = "mm_reply"
    /\ IF mm[t].obj.reply /\ mm[t].depth = 0
       THEN /\ \E inner \in {p \in Payloads({FALSE}) :
                                p.valid => p.chat = mm[t].obj.chat} :
                 mm' = [mm EXCEPT ![t] =
                          [NoMm EXCEPT !.obj = inner, !.depth = 1,
                                       !.outer = MakeMsg(mm[t])]]
            /\ pc' = [pc EXCEPT ![t] = "mm_begin"]
            /\ UNCHANGED <<stack, res>>
       ELSE /\ Return(t, [kind |-> "ok", val |-> MakeMsg(mm[t])])
            /\ UNCHANGED mm
    /\ UNCHANGED <<run, since_sent, hsession, offset, dest, identity,
                   sleep, api, hist, poll, posted, out, fmt>>

(***************************************************************************)
(* start_polling (lines 104-123).                                          *)
(***************************************************************************)
NoPoll == [updates |-> <<>>, idx |-> 0, maxupd |-> 0, error |-> "none",
           last |-> "none"]

\* line 122: the cursor stored after a batch
NewOffset(maxupd) == maxupd + 1

\* the id of the last update instead of the largest one
NewMax_last(maxupd, upd) == upd.update_id

\* line 119
NewMax(maxupd, upd) == Max(maxupd, upd.update_id)

\* line 105: getMe
PollStart ==
    /\ pc["poll"] = "start"
    /\ Call("poll", "getMe", NoParams, "got_me")
    /\ UNCHANGED <<run, since_sent, hsession, offset, dest, identity,
                   res, hist, poll, posted, mm, out, fmt>>

\* lines 105-107: the identity is stored; an exception of getMe leaves
\* start_polling
PollGotMe ==
    /\ pc["poll"] = "got_me"
    /\ IF res["poll"].kind = "ok"
       THEN /\ identity' = res["poll"].val.id
            /\ pc' = [pc EXCEPT !["poll"] = "loop_top"]
            /\ UNCHANGED poll
       ELSE /\ pc' = [pc EXCEPT !["poll"] = "crashed"]
            /\ poll' = [poll EXCEPT !.error = "getMe"]
            /\ UNCHANGED identity
    /\ api' = [api EXCEPT !["poll"] = NoCall]
    /\ res' = [res EXCEPT !["poll"] = NoRes]
    /\ UNCHANGED <<run, since_sent, hsession, offset, dest, stack,
                   sleep, hist, posted, mm, out, fmt>>

\* lines 108-111: self.run holds, getUpdates is called with the cursor
PollGetUpdates ==
    /\ pc["poll"] = "loop_top" /\ Ready("poll")
    /\ run
    /\ Call("poll", "getUpdates", NoParams, "got_updates")
    /\ poll' = [poll EXCEPT !.last = "none"]
    /\ hist' = [hist EXCEPT !["poll"].iter = 0]
    /\ UNCHANGED <<run, since_sent, hsession, offset, dest, identity,
                   res, posted, mm, out, fmt>>

\* a loop that does not test self.run: it sleeps and goes round again
PollStop_ignored ==
    /\ pc["poll"] = "loop_top" /\ Ready("poll")
    /\ ~run
    /\ pc' = [pc EXCEPT !["poll"] = "idle"]
    /\ sleep' = [sleep EXCEPT !["poll"] = IdleDelay]
    /\ UNCHANGED <<run, since_sent, hsession, offset, dest, identity,
                   stack, api, res, hist, poll, posted, mm, out, fmt>>

\* line 108: self.run is false, start_polling returns
PollStop ==
    /\ pc["poll"] = "loop_top" /\ Ready("poll")
    /\ ~run
    /\ pc' = [pc EXCEPT !["poll"] = "done"]
    /\ UNCHANGED <<run, since_sent, hsession, offset, dest, identity,
                   stack, sleep, api, res, hist, poll, posted, mm, out, fmt>>

\* a handler that lets the exception of getUpdates end start_polling
PollFailed_halt ==
    /\ pc["poll"] = "got_updates"
    /\ res["poll"].kind # "ok"
    /\ pc' = [pc EXCEPT !["poll"] = "crashed"]
    /\ poll' = [poll EXCEPT !.error = "getUpdates"]
    /\ api' = [api EXCEPT !["poll"] = NoCall]
    /\ res' = [res EXCEPT !["poll"] = NoRes]
    /\ UNCHANGED <<run, since_sent, hsession, offset, dest, identity,
                   stack, sleep, hist, posted, mm, out, fmt>>

\* lines 112-114: getUpdates raised; continue
PollFailed ==
    /\ pc["poll"] = "got_updates"
    /\ res["poll"].kind # "ok"
    /\ pc' = [pc EXCEPT !["poll"] = "loop_top"]
    /\ poll' = [poll EXCEPT !.last = "failed"]
    /\ hist' = [hist EXCEPT !["poll"].iter = 0]
    /\ api' = [api EXCEPT !["poll"] = NoCall]
    /\ res' = [res EXCEPT !["poll"] = NoRes]
    /\ UNCHANGED <<run, since_sent, hsession, offset, dest, identity,
                   stack, sleep, posted, mm, out, fmt>>

\* the cursor written without the "if updates" test: maxupd is still 0
PollEmpty_unguarded ==
    /\ pc["poll"] = "got_updates"
    /\ res["poll"].kind = "ok"
    /\ res["poll"].val.list = <<>>
    /\ offset' = NewOffset(0)
    /\ pc' = [pc EXCEPT !["poll"] = "idle"]
    /\ sleep' = [sleep EXCEPT !["poll"] = IdleDelay]
    /\ poll' = [poll EXCEPT !.last = "empty"]
    /\ hist' = [hist EXCEPT !["poll"].iter = 0]
    /\ api' = [api EXCEPT !["poll"] = NoCall]
    /\ res' = [res EXCEPT !["poll"] = NoRes]
    /\ UNCHANGED <<run, since_sent, hsession, dest, identity,
                   stack, posted, mm, out, fmt>>

\* lines 115, 123: an empty list; sleep
PollEmpty ==
    /\ pc["poll"] = "got_updates"
    /\ res["poll"].kind = "ok"
    /\ res["poll"].val.list = <<>>
    /\ pc' = [pc EXCEPT !["poll"] = "idle"]
    /\ sleep' = [sleep EXCEPT !["poll"] = IdleDelay]
    /\ poll' = [poll EXCEPT !.last = "empty"]
    /\ hist' = [hist EXCEPT !["poll"].iter = 0]
    /\ api' = [api EXCEPT !["poll"] = NoCall]
    /\ res' = [res EXCEPT !["poll"] = NoRes]
    /\ UNCHANGED <<run, since_sent, hsession, offset, dest, identity,
                   stack, posted, mm, out, fmt>>

\* lines 115-117: a non-empty list
PollBatch ==
    /\ pc["poll"] = "got_updates"
    /\ res["poll"].kind = "ok"
    /\ res["poll"].val.list # <<>>
    /\ poll' = [NoPoll EXCEPT !.updates = res["poll"].val.list, !.idx = 1]
    /\ posted' = <<>>
    /\ pc' = [pc EXCEPT !["poll"] = "batch"]
    /\ api' = [api EXCEPT !["poll"] = NoCall]
    /\ res' = [res EXCEPT !["poll"] = NoRes]
    /\ UNCHANGED <<run, since_sent, hsession, offset, dest, identity,
                   stack, sleep, hist, mm, out, fmt>>

\* lines 118-121: the next update of the list, its message drawn from P
PollUpdOf(P) ==
    /\ pc["poll"] = "batch"
    /\ poll.idx <= Len(poll.updates)
    /\ LET upd == poll.updates[poll.idx]
       IN  IF upd.message
           THEN /\ \E obj \in P : MmEnter("poll", obj, "post")
                /\ poll' = [poll EXCEPT !.maxupd = NewMax(@, upd)]
           ELSE /\ poll' = [poll EXCEPT !.maxupd = NewMax(@, upd),
                                        !.idx = @ + 1]
                /\ UNCHANGED <<pc, stack, mm>>
    /\ UNCHANGED <<run, since_sent, hsession, offset, dest, identity,
                   sleep, api, res, hist, posted, out, fmt>>

\* any message payload
PollUpd == PollUpdOf(Payloads(BOOLEAN))

\* messages that reply to nothing and carry a text or a photo, and the
\* payload the mapper cannot index
PlainPayloads == {p \in Payloads({FALSE}) : p.media \in {"none", "photo"}}

PollUpdPlain == PollUpdOf(PlainPayloads)

\* line 121: _make_message returned a Message and bus.post accepts it
PollPost ==
    /\ pc["poll"] = "post"
    /\ res["poll"].kind = "ok"
    /\ posted' = Append(posted, poll.updates[poll.idx].update_id)
    /\ poll' = [poll EXCEPT !.idx = @ + 1]
    /\ pc' = [pc EXCEPT !["poll"] = "batch"]
    /\ res' = [res EXCEPT !["poll"] = NoRes]
    /\ mm' = [mm EXCEPT !["poll"] = NoMm]
    /\ UNCHANGED <<run, since_sent, hsession, offset, dest, identity,
                   stack, sleep, api, hist, out, fmt>>

\* line 121: _make_message or bus.post raises; nothing in start_polling
\* catches it
PollRaise ==
    /\ pc["poll"] = "post"
    /\ poll' = [poll EXCEPT !.error = IF res["poll"].kind = "ok"
                                      THEN "post" ELSE res["poll"].kind]
    /\ pc' = [pc EXCEPT !["poll"] = "crashed"]
    /\ res' = [res EXCEPT !["poll"] = NoRes]
    /\ mm' = [mm EXCEPT !["poll"] = NoMm]
    /\ UNCHANGED <<run, since_sent, hsession, offset, dest, identity,
                   stack, sleep, api, hist, posted, out, fmt>>

\* lines 122-123: the list is exhausted; store the cursor, sleep
PollAdvance ==
    /\ pc["poll"] = "batch"
    /\ poll.idx > Len(poll.updates)
    /\ offset' = NewOffset(poll.maxupd)
    /\ pc' = [pc EXCEPT !["poll"] = "idle"]
    /\ sleep' = [sleep EXCEPT !["poll"] = IdleDelay]
    /\ poll' = [poll EXCEPT !.last = "batch"]
    /\ hist' = [hist EXCEPT !["poll"].iter = 0]
    /\ UNCHANGED <<run, since_sent, hsession, dest, identity, stack,
                   api, res, posted, mm, out, fmt>>

\* line 123: the sleep is over; updates, upd and maxupd are dead from here
PollWake ==
    /\ pc["poll"] = "idle" /\ Ready("poll")
    /\ pc' = [pc EXCEPT !["poll"] = "loop_top"]
    /\ poll' = [NoPoll EXCEPT !.last = poll.last]
    /\ posted' = <<>>
    /\ UNCHANGED <<run, since_sent, hsession, offset, dest, identity,
                   stack, sleep, api, res, hist, mm, out, fmt>>

(***************************************************************************)
(* Outbound texts.  A text is a sequence of runs [c, n]: n >= 1 copies of  *)
(* the character c.                                                        *)
(***************************************************************************)
TextLimit == 2048
TextKeep == 2047
NameLen == 4

Whitespace == {" "}

Lens == {1, TextLimit, 3000}

Run(c, n) == [c |-> c, n |-> n]

Texts ==
    UNION {[1..k -> {Run(c, n) : c \in {" ", "x"}, n \in Lens}] : k \in 0..MaxRuns}

RECURSIVE TextLen(_)
TextLen(x) == IF x = <<>> THEN 0 ELSE Head(x).n + TextLen(Tail(x))

RECURSIVE LStrip(_)
LStrip(x) ==
    IF x = <<>> THEN x
    ELSE IF Head(x).c \in Whitespace THEN LStrip(Tail(x)) ELSE x

RECURSIVE RStrip(_)
RStrip(x) ==
    IF x = <<>> THEN x
    ELSE IF x[Len(x)].c \in Whitespace THEN RStrip(SubSeq(x, 1, Len(x) - 1))
    ELSE x

\* text.strip(), line 234
Strip(x) == RStrip(LStrip(x))

\* text[:k]
RECURSIVE Prefix(_, _)
Prefix(x, k) ==
    IF x = <<>> \/ k <= 0 THEN <<>>
    ELSE IF Head(x).n <= k THEN <<Head(x)>> \o Prefix(Tail(x), k - Head(x).n)
    ELSE <<Run(Head(x).c, k)>>

\* a limit test that is off by one
Truncate_early(x) ==
    IF TextLen(x) >= TextLimit THEN Prefix(x, TextKeep) \o <<Run("...", 1)>>
    ELSE x

\* lines 240-241
Truncate(x) ==
    IF TextLen(x) > TextLimit THEN Prefix(x, TextKeep) \o <<Run("...", 1)>>
    ELSE x

\* line 173: '%s: %s' % (smartname(response.reply.src), text)
Attributed(x) == <<Run("n", NameLen), Run(":", 1), Run(" ", 1)>> \o x

(***************************************************************************)
(* send, sendmsg and forward (lines 125-198, 233-243), run by a bus worker.*)
(***************************************************************************)
RTypes == {"plain", "markdown", "photo", "audio", "document", "sticker",
           "video", "voice", "location"}

MediaTypes == {"photo", "audio", "document", "sticker", "video", "voice"}

IrcChat == 40

NoMessage == [protocol |-> "none", pid |-> None, chat |-> None]

\* the Messages a Response can reply to
ReplyMsgs == {[protocol |-> "telegrambot", pid |-> 11, chat |-> DestId],
              [protocol |-> "telegrambot", pid |-> 11, chat |-> OtherId],
              [protocol |-> "irc", pid |-> 12, chat |-> IrcChat]}

\* the forwarded argument of send: absent, or the relayed copy in the group
Forwardeds == {NoMessage, [protocol |-> "telegrambot", pid |-> 13, chat |-> DestId]}

NoOut == [op |-> "none", rtype |-> "none", reply |-> NoMessage,
          fwd |-> NoMessage, text |-> <<>>, protocol |-> "none",
          msg |-> [fwd_src |-> FALSE, reply |-> FALSE, fmt |-> FALSE],
          native |-> "none", relayed |-> FALSE]

\* protocol.startswith('telegram')
IsTelegram(protocol) == protocol \in {"telegram", "telegrambot", "telegramcli"}

\* lines 130-140: chat, reply target and attribution
Addressing(reply, fwd, d) ==
    IF IsTelegram(reply.protocol)
    THEN [chat_id |-> reply.chat, reply_to |-> reply.pid, withreplysrc |-> FALSE]
    ELSE IF fwd # NoMessage
    THEN [chat_id |-> fwd.chat, reply_to |-> fwd.pid, withreplysrc |-> FALSE]
    ELSE [chat_id |-> d.pid, reply_to |-> None, withreplysrc |-> TRUE]

\* lines 165-166 and 169-170: the chat_id of a media or location call
MediaChat(reply, adr) == reply.chat

\* 'send' + rtype.capitalize(), 'sendLocation'
MethodOf(rtype) ==
    CASE rtype = "photo" -> "sendPhoto"
      [] rtype = "audio" -> "sendAudio"
      [] rtype = "document" -> "sendDocument"
      [] rtype = "sticker" -> "sendSticker"
      [] rtype = "video" -> "sendVideo"
      [] rtype = "voice" -> "sendVoice"
      [] rtype = "location" -> "sendLocation"
      [] OTHER -> "sendMessage"

\* lines 125-175 and 233-243, up to the remote call
send(w) ==
    /\ pc[w] = "ready"
    /\ \E rtype \in RTypes, reply \in ReplyMsgs, fwd \in Forwardeds, text \in Texts :
         LET adr == Addressing(reply, fwd, dest)
             mode == IF rtype = "markdown" THEN "Markdown" ELSE "none"
             full == IF adr.withreplysrc THEN Attributed(text) ELSE text
             body == Strip(full)
         IN  /\ out' = [out EXCEPT ![w] =
                          [NoOut EXCEPT !.op = "send", !.rtype = rtype,
                                        !.reply = reply, !.fwd = fwd,
                                        !.text = IF rtype \in MediaTypes \cup {"location"}
                                                 THEN <<>> ELSE full]]
             /\ IF rtype \in MediaTypes \cup {"location"}
                THEN /\ Call(w, MethodOf(rtype),
                             [NoParams EXCEPT !.chat_id = MediaChat(reply, adr),
                                              !.reply_to = adr.reply_to],
                             "sent")
                     /\ UNCHANGED res
                ELSE IF body = <<>>
                THEN \* sendmsg returns None, _make_message(None) is None
                     /\ pc' = [pc EXCEPT ![w] = "op_done"]
                     /\ res' = [res EXCEPT ![w] = [kind |-> "ok", val |-> NoMsg]]
                     /\ UNCHANGED <<api, sleep, stack>>
                ELSE /\ Call(w, "sendMessage",
                             [chat_id |-> adr.chat_id, reply_to |-> adr.reply_to,
                              text |-> Truncate(body), parse_mode |-> mode,
                              form |-> "text"],
                             "sent")
                     /\ UNCHANGED res
    /\ UNCHANGED <<run, since_sent, hsession, offset, dest, identity,
                   hist, poll, posted, mm, fmt>>

\* the chat object of a send confirmation: the chat the call was sent to
ConfirmChats(id) ==
    IF \E c \in Chats : c.id = id THEN {c \in Chats : c.id = id}
    ELSE {[id |-> id, type |-> "private", title |-> "user"]}

\* lines 167, 171, 175, 182, 198: return self._make_message(m); an exception
\* of bot_api leaves send / forward
confirm(w) ==
    /\ pc[w] = "sent"
    /\ IF res[w].kind = "ok"
       THEN /\ \E c \in ConfirmChats(res[w].val.chat) :
                 MmEnter(w, [valid |-> TRUE, chat |-> c,
                             media |-> res[w].val.media,
                             reply |-> api[w].reply_to # None], "op_done")
            /\ res' = [res EXCEPT ![w] = NoRes]
       ELSE /\ pc' = [pc EXCEPT ![w] = "op_done"]
            /\ UNCHANGED <<stack, res, mm>>
    /\ api' = [api EXCEPT ![w] = NoCall]
    /\ UNCHANGED <<run, since_sent, hsession, offset, dest, identity,
                   sleep, hist, poll, posted, out, fmt>>

\* lines 185-190: which textual relay is synthesized
RelayForm(msg) ==
    IF msg.fwd_src THEN "fwd" ELSE IF msg.reply THEN "reply" ELSE "plain"

\* lines 191-197: the sendMessage call of the textual relay
Relay(msg, d) ==
    [chat_id |-> d.pid, reply_to |-> None, text |-> <<>>,
     parse_mode |-> IF msg.fmt THEN "Markdown" ELSE "none",
     form |-> RelayForm(msg)]

\* a handler that catches every exception
ForwardCatches_all(exc) == TRUE

\* line 183: except BotAPIFailed
ForwardCatches(exc) == exc = "BotAPIFailed"

\* lines 177-181, or 185-197 when the source is another platform
forward(w) ==
    /\ pc[w] = "ready"
    /\ \E protocol \in {"telegrambot", "irc"},
          msg \in [fwd_src : BOOLEAN, reply : BOOLEAN, fmt : BOOLEAN] :
         /\ out' = [out EXCEPT ![w] =
                      [NoOut EXCEPT !.op = "forward", !.protocol = protocol,
                                    !.msg = msg,
                                    !.relayed = ~IsTelegram(protocol)]]
         /\ IF IsTelegram(protocol)
            THEN Call(w, "forwardMessage",
                      [NoParams EXCEPT !.chat_id = dest.pid], "forwarded")
            ELSE Call(w, "sendMessage", Relay(msg, dest), "sent")
    /\ UNCHANGED <<run, since_sent, hsession, offset, dest, identity,
                   res, hist, poll, posted, mm, fmt>>

\* lines 182-198: the native forward has returned or raised
forwarded(w) ==
    /\ pc[w] = "forwarded"
    /\ IF res[w].kind = "ok"
       THEN /\ \E c \in ConfirmChats(res[w].val.chat) :
                 MmEnter(w, [valid |-> TRUE, chat |-> c,
                             media |-> res[w].val.media, reply |-> FALSE],
                         "op_done")
            /\ out' = [out EXCEPT ![w].native = "ok"]
            /\ res' = [res EXCEPT ![w] = NoRes]
            /\ api' = [api EXCEPT ![w] = NoCall]
            /\ UNCHANGED sleep
       ELSE IF ForwardCatches(res[w].kind)
       THEN /\ Call(w, "sendMessage", Relay(out[w].msg, dest), "sent")
            /\ out' = [out EXCEPT ![w].native = res[w].kind,
                                  ![w].relayed = TRUE]
            /\ res' = [res EXCEPT ![w] = NoRes]
            /\ UNCHANGED mm
       ELSE /\ pc' = [pc EXCEPT ![w] = "op_done"]
            /\ out' = [out EXCEPT ![w].native = res[w].kind]
            /\ api' = [api EXCEPT ![w] = NoCall]
            /\ UNCHANGED <<stack, res, mm, sleep>>
    /\ UNCHANGED <<run, since_sent, hsession, offset, dest, identity,
                   hist, poll, posted, fmt>>

\* send / forward hands its Message, or its exception, to the bus
op_done(w) ==
    /\ pc[w] = "op_done"
    /\ pc' = [pc EXCEPT ![w] = "ready"]
    /\ out' = [out EXCEPT ![w] = NoOut]
    /\ res' = [res EXCEPT ![w] = NoRes]
    /\ mm' = [mm EXCEPT ![w] = NoMm]
    /\ UNCHANGED <<run, since_sent, hsession, offset, dest, identity,
                   stack, sleep, api, hist, poll, posted, fmt>>

(***************************************************************************)
(* status (lines 200-201), called by bus workers.                          *)
(***************************************************************************)
status(w) ==
    /\ pc[w] = "ready"
    /\ out' = [out EXCEPT ![w] = [NoOut EXCEPT !.op = "status"]]
    /\ Call(w, "sendChatAction", [NoParams EXCEPT !.chat_id = dest.pid],
            "status_ret")
    /\ UNCHANGED <<run, since_sent, hsession, offset, dest, identity,
                   res, hist, poll, posted, mm, fmt>>

\* status returns what bot_api returned, or raises what it raised
status_ret(w) ==
    /\ pc[w] = "status_ret"
    /\ pc' = [pc EXCEPT ![w] = "ready"]
    /\ out' = [out EXCEPT ![w] = NoOut]
    /\ api' = [api EXCEPT ![w] = NoCall]
    /\ res' = [res EXCEPT ![w] = NoRes]
    /\ UNCHANGED <<run, since_sent, hsession, offset, dest, identity,
                   stack, sleep, hist, poll, posted, mm, fmt>>

(***************************************************************************)
(* ircfmt2tgmd, re_ircfmt and mdescape (lines 17-60).  A string is a       *)
(* sequence of characters; the control bytes \x02 \x16 \x1D \x1F \x03 \x0F *)
(* are written "B" "V" "I" "U" "C" "O".                                    *)
(***************************************************************************)
Alphabet == {"B", "V", "I", "U", "C", "O", "1", ",", "a", "*", "_", "\\"}

Digits == {"0", "1", "2", "3", "4", "5", "6", "7", "8", "9"}

Controls == {"B", "V", "I", "U", "C", "O"}

\* a table that styles bold and italic only
table_plain == <<(<<"B", "V", "I", "U", "C">>), (<<"*", "", "_", "", "">>)>>

\* table = ('\x02\x16\x1D\x1F\x03', '**__*'), line 30
table == <<(<<"B", "V", "I", "U", "C">>), (<<"*", "*", "_", "_", "*">>)>>

\* re_mdescape, line 18
Special == {"[", "*", "_"}

Inputs == UNION {[1..n -> Alphabet] : n \in 0..MaxLen}

RECURSIVE TakeWhile(_, _)
TakeWhile(x, S) ==
    IF x = <<>> \/ Head(x) \notin S THEN <<>>
    ELSE <<Head(x)>> \o TakeWhile(Tail(x), S)

Drop(x, k) == SubSeq(x, k + 1, Len(x))

\* what (?:\d+(?:,\d+)?)? matches at the start of x
ColorSuffix(x) ==
    LET d1 == TakeWhile(x, Digits)
        r1 == Drop(x, Len(d1))
        d2 == IF r1 # <<>> /\ Head(r1) = "," THEN TakeWhile(Tail(r1), Digits)
              ELSE <<>>
    IN  IF d1 = <<>> THEN <<>>
        ELSE IF d2 = <<>> THEN d1
        ELSE d1 \o <<",">> \o d2

\* re_ircfmt.split(s) without its empty chunks (line 35-37)
RECURSIVE Split(_)
Split(x) ==
    IF x = <<>> THEN <<>>
    ELSE IF Head(x) = "C"
    THEN LET suf == ColorSuffix(Tail(x))
         IN  <<(<<"C">> \o suf)>> \o Split(Drop(x, 1 + Len(suf)))
    ELSE IF Head(x) \in Controls
    THEN <<(<<Head(x)>>)>> \o Split(Tail(x))
    ELSE LET lit == TakeWhile(x, Alphabet \ Controls)
         IN  <<lit>> \o Split(Drop(x, Len(lit)))

\* mdescape, line 19
RECURSIVE mdescape(_)
mdescape(x) ==
    IF x = <<>> THEN <<>>
    ELSE (IF Head(x) \in Special THEN <<"\\", Head(x)>> ELSE <<Head(x)>>)
         \o mdescape(Tail(x))

IndexOf(c) == CHOOSE k \in 1..5 : table[1][k] = c

\* lines 44-48: the markup character of the first active toggle
NewCode(state) ==
    IF \E k \in 1..5 : state[k]
    THEN table[2][CHOOSE k \in 1..5 : state[k] /\ \A j \in 1..(k - 1) : ~state[j]]
    ELSE ""

Chars(code) == IF code = "" THEN <<>> ELSE <<code>>

NoFmt == [s |-> <<>>, chunks |-> <<>>, i |-> 0, state |-> [k \in 1..5 |-> FALSE],
          code |-> "", ret |-> <<>>, done |-> FALSE]

\* lines 32-35
FmtStart(x) == [NoFmt EXCEPT !.s = x, !.chunks = Split(x), !.i = 1]

FmtChunk == fmt.chunks[fmt.i]

\* lines 38-51: a toggle byte, or a color code
FmtToggle ==
    /\ fmt.i >= 1 /\ fmt.i <= Len(fmt.chunks)
    /\ FmtChunk[1] \in {"B", "V", "I", "U", "C"}
    /\ LET idx == IndexOf(FmtChunk[1])
           state == [fmt.state EXCEPT ![idx] =
                        IF FmtChunk[1] = "C" THEN Len(FmtChunk) > 1 ELSE ~@]
           newcode == NewCode(state)
       IN  fmt' = [fmt EXCEPT !.state = state,
                              !.ret = IF fmt.code # newcode
                                      THEN @ \o Chars(fmt.code) \o Chars(newcode)
                                      ELSE @,
                              !.code = newcode,
                              !.i = @ + 1]
    /\ UNCHANGED <<run, since_sent, hsession, offset, dest, identity, pc,
                   stack, sleep, api, res, hist, poll, posted, mm, out>>

\* lines 52-55: the reset byte
FmtReset ==
    /\ fmt.i >= 1 /\ fmt.i <= Len(fmt.chunks)
    /\ FmtChunk[1] = "O"
    /\ fmt' = [fmt EXCEPT !.state = [k \in 1..5 |-> FALSE],
                          !.ret = @ \o Chars(fmt.code),
                          !.code = "",
                          !.i = @ + 1]
    /\ UNCHANGED <<run, since_sent, hsession, offset, dest, identity, pc,
                   stack, sleep, api, res, hist, poll, posted, mm, out>>

\* lines 56-57: literal text
FmtLiteral ==
    /\ fmt.i >= 1 /\ fmt.i <= Len(fmt.chunks)
    /\ FmtChunk[1] \notin Controls
    /\ fmt' = [fmt EXCEPT !.ret = @ \o mdescape(FmtChunk), !.i = @ + 1]
    /\ UNCHANGED <<run, since_sent, hsession, offset, dest, identity, pc,
                   stack, sleep, api, res, hist, poll, posted, mm, out>>

\* lines 58-60: the end of the input
FmtFinish ==
    /\ fmt.i > Len(fmt.chunks) /\ ~fmt.done
    /\ fmt' = [fmt EXCEPT !.ret = @ \o Chars(fmt.code), !.done = TRUE]
    /\ UNCHANGED <<run, since_sent, hsession, offset, dest, identity, pc,
                   stack, sleep, api, res, hist, poll, posted, mm, out>>

(***************************************************************************)
(* The adapter after __init__ (lines 77-102).                              *)
(***************************************************************************)
\* last_sent = 0: the first call finds perf_counter() either still below
\* rate or far beyond it
InitAdapter ==
    /\ run = TRUE
    /\ since_sent \in {0, Horizon}
    /\ hsession = 0
    /\ offset = 0
    /\ dest = [type |-> "group", pid |-> DestId, name |-> "configured"]
    /\ identity = None
    /\ pc = [t \in Threads |-> IF t = "poll" THEN "start" ELSE "ready"]
    /\ stack = [t \in Threads |-> <<>>]
    /\ sleep = [t \in Threads |-> 0]
    /\ api = [t \in Threads |-> NoCall]
    /\ res = [t \in Threads |-> NoRes]
    /\ hist = [t \in Threads |-> [prev |-> FALSE, since |-> Horizon, iter |-> 0]]
    /\ poll = NoPoll
    /\ posted = <<>>
    /\ mm = [t \in Threads |-> NoMm]
    /\ out = [w \in Workers |-> NoOut]

Init == InitAdapter /\ fmt = NoFmt

\* ircfmt2tgmd called on a string
InitFmt == InitAdapter /\ fmt \in {FmtStart(x) : x \in Inputs}

Api ==
    \E t \in Threads :
        ApiPost(t) \/ ApiAbort(t) \/ ApiRecv(t) \/ ApiFail(t) \/ ApiRetry(t)
        \/ ApiExit(t)

Mapper == \E t \in Threads : MmBegin(t) \/ MmFile(t) \/ MmReply(t)

Polling ==
    \/ PollStart \/ PollGotMe \/ PollGetUpdates \/ PollStop \/ PollFailed
    \/ PollEmpty \/ PollBatch \/ PollUpd \/ PollPost \/ PollRaise
    \/ PollAdvance \/ PollWake

\* the ingestion loop and close()
Next == Polling \/ Api \/ Mapper \/ close \/ Advance

Spec == Init /\ [][Next]_vars

PollingPlain ==
    \/ PollStart \/ PollGotMe \/ PollGetUpdates \/ PollStop \/ PollFailed
    \/ PollEmpty \/ PollBatch \/ PollUpdPlain \/ PollPost \/ PollRaise
    \/ PollAdvance \/ PollWake

NextFair == PollingPlain \/ Api \/ Mapper \/ close \/ Advance

\* the ingestion loop, receiving plain messages, under a scheduler that lets
\* the polling context run: a step it can take is taken, a sleep ends, a
\* network call returns or times out (timeout=45, line 215)
SpecFair ==
    /\ Init /\ [][NextFair]_vars
    /\ WF_vars(PollingPlain \/ Api \/ Mapper) /\ WF_vars(Advance)

\* two bus workers calling the API client, and close()
NextApi == (\E w \in Workers : status(w) \/ status_ret(w)) \/ Api \/ close \/ Advance

SpecApi == Init /\ [][NextApi]_vars

\* one bus worker sending and forwarding, and close()
NextSend ==
    \/ send("out") \/ confirm("out") \/ forward("out") \/ forwarded("out")
    \/ op_done("out") \/ Api \/ Mapper \/ close \/ Advance

SpecSend == Init /\ [][NextSend]_vars

\* the format translator on its own
NextFmt == FmtToggle \/ FmtReset \/ FmtLiteral \/ FmtFinish

SpecFmt == InitFmt /\ [][NextFmt]_vars

(***************************************************************************)
(* Properties.                                                             *)
(***************************************************************************)
RECURSIVE MsgIds(_)
MsgIds(b) ==
    IF b = <<>> THEN <<>>
    ELSE (IF Head(b).message THEN <<Head(b).update_id>> ELSE <<>>)
         \o MsgIds(Tail(b))

MaxId(b) ==
    CHOOSE m \in {b[i].update_id : i \in DOMAIN b} :
        \A i \in DOMAIN b : b[i].update_id <= m

\* C1: the cursor is written at the end of every batch that was worked
\* through, and only then; at that moment every update of the batch that
\* carries a message has been posted, in the order of receipt, and the
\* cursor becomes the largest update id of the batch plus one.
C1_CursorAfterBatch ==
    [][(offset' # offset \/ (pc["poll"] = "batch" /\ pc'["poll"] = "idle"))
         => /\ poll.updates # <<>>
            /\ posted = MsgIds(poll.updates)
            /\ offset' = MaxId(poll.updates) + 1]_vars

\* a batch received out of numeric order, both updates posted in the order
\* of receipt, the cursor stored
C1_Witness ==
    /\ pc["poll"] = "idle"
    /\ Len(poll.updates) = 2
    /\ poll.updates[1].update_id > poll.updates[2].update_id
    /\ posted = <<poll.updates[1].update_id, poll.updates[2].update_id>>
    /\ offset = poll.updates[1].update_id + 1

\* C2: the first request of a call is not posted earlier than 1/rate
\* (3 seconds) after the completion time the caller's previous call stored
\* in last_sent.
C2_MinSpacing ==
    \A t \in Threads :
        (api[t].reqs >= 1 /\ api[t].gap # None) => api[t].gap >= Spacing

\* C3: a call whose every attempt fails at transport level makes exactly
\* `attempts` requests and `attempts` - 1 session replacements, one between
\* two consecutive attempts, and raises the transport error after the last.
C3_RetryThenRaise ==
    \A t \in Threads :
        /\ pc[t] \in ApiPcs =>
             /\ api[t].sess = api[t].att - 1
             /\ api[t].att <= attempts
             /\ api[t].reqs = IF pc[t] \in {"api_http", "api_sleep"} \/ api[t].got
                              THEN api[t].att ELSE api[t].att - 1
        /\ res[t].kind = "TransportError" =>
             /\ pc[t] \notin ApiPcs
             /\ api[t].reqs = attempts
             /\ api[t].sess = attempts - 1

\* a call has raised the transport error of its second attempt
C3_Witness ==
    \E t \in Threads :
        /\ res[t].kind = "TransportError"
        /\ api[t].reqs = 2 /\ api[t].sess = 1
        /\ run

InCall(t) == pc[t] \in ApiPcs

\* C4: the check-wait-call-update sequence of bot_api is run by one caller
\* at a time: no two contexts are inside it together, so no two requests
\* are in flight at once.
C4_Serialized ==
    \A t, u \in Threads : (InCall(t) /\ InCall(u)) => t = u

\* C5: an envelope ends the call: with ok false the call raises BotAPIFailed
\* carrying the envelope, with ok true it returns the result field; in both
\* cases no further request, retry sleep or session replacement follows the
\* envelope, so an envelope answering the first request costs one request.
C5_EnvelopeNotRetried ==
    \A t \in Threads :
        api[t].got =>
          /\ pc[t] \notin {"api_top", "api_http", "api_sleep"}
          /\ api[t].reqs = api[t].att /\ api[t].sess = api[t].att - 1
          /\ api[t].att = 1 => (api[t].reqs = 1 /\ api[t].sess = 0)
          /\ pc[t] \notin ApiPcs =>
               IF api[t].ok
               THEN res[t] = [kind |-> "ok", val |-> api[t].result]
               ELSE res[t] = [kind |-> "BotAPIFailed",
                              val |-> [ok |-> FALSE, body |-> api[t].result]]

\* a call has raised BotAPIFailed for an ok = false envelope after one request
C5_Witness ==
    \E t \in Threads :
        /\ pc[t] \notin ApiPcs
        /\ api[t].got /\ ~api[t].ok /\ api[t].reqs = 1
        /\ res[t].kind = "BotAPIFailed"

SendCall(w) ==
    /\ out[w].op = "send"
    /\ pc[w] \in ApiPcs
    /\ api[w].method # "getFile"

\* C6: whatever the response type, the remote call of send goes to the chat
\* of a telegram reply (as a reply to it), else to the chat of the forwarded
\* message (as a reply to it), else to the destination chat with no reply
\* target; the chat of a reply from another platform is never the target.
C6_Addressing ==
    \A w \in Workers :
        SendCall(w) =>
            IF IsTelegram(out[w].reply.protocol)
            THEN /\ api[w].chat_id = out[w].reply.chat
                 /\ api[w].reply_to = out[w].reply.pid
            ELSE IF out[w].fwd # NoMessage
            THEN /\ api[w].chat_id = out[w].fwd.chat
                 /\ api[w].reply_to = out[w].fwd.pid
            ELSE /\ api[w].chat_id = dest.pid
                 /\ api[w].reply_to = None

RECURSIVE Merge(_)
Merge(x) ==
    IF Len(x) < 2 THEN x
    ELSE IF x[1].c = x[2].c
    THEN Merge(<<Run(x[1].c, x[1].n + x[2].n)>> \o SubSeq(x, 3, Len(x)))
    ELSE <<x[1]>> \o Merge(Tail(x))

SameText(x, y) == Merge(x) = Merge(y)

TextSend(w) == out[w].op = "send" /\ out[w].rtype \in {"plain", "markdown"}

\* C7: sendmsg makes no remote call and returns None (and so does send) for
\* a text that is empty once stripped; a text it does send has 1 to 2048
\* characters: the stripped text itself when that has at most 2048
\* characters, else its first 2047 characters and one ellipsis character.
C7_TextSent ==
    \A w \in Workers :
        TextSend(w) =>
            LET body == Strip(out[w].text)
            IN  IF TextLen(body) = 0
                THEN /\ pc[w] = "op_done"
                     /\ api[w] = NoCall
                     /\ res[w] = [kind |-> "ok", val |-> NoMsg]
                ELSE (pc[w] \in ApiPcs /\ api[w].method = "sendMessage") =>
                       /\ TextLen(api[w].text) >= 1
                       /\ TextLen(api[w].text) <= TextLimit
                       /\ TextLen(body) <= TextLimit => api[w].text = body
                       /\ TextLen(body) > TextLimit =>
                            /\ TextLen(api[w].text) = TextKeep + 1
                            /\ api[w].text[Len(api[w].text)] = Run("...", 1)
                            /\ SameText(SubSeq(api[w].text, 1, Len(api[w].text) - 1),
                                        Prefix(body, TextKeep))

\* a text of more than 2048 characters with surrounding whitespace is on its
\* way as 2047 characters and an ellipsis
C7_Witness ==
    \E w \in Workers :
        /\ TextSend(w)
        /\ pc[w] = "api_http"
        /\ api[w].method = "sendMessage"
        /\ out[w].text # Strip(out[w].text)
        /\ TextLen(Strip(out[w].text)) > TextLimit
        /\ TextLen(api[w].text) = TextLimit

\* C8 as stated: whenever the native forwardMessage call fails, by a remote
\* API error or by a transport error, forward falls back to the textual
\* relay.
C8_FallbackOnAnyFailure ==
    \A w \in Workers :
        (out[w].op = "forward" /\ out[w].native \in {"BotAPIFailed", "TransportError"})
            => out[w].relayed

\* C8 amended: forwardMessage is called only for a telegram-family source;
\* when it raises BotAPIFailed forward goes on to send the textual relay
\* with sendMessage to the destination chat; when it raises the transport
\* error bot_api gave up on, forward raises that error and sends no relay;
\* for another platform the relay is sent directly.
C8_FallbackOnApiFailure ==
    \A w \in Workers :
        out[w].op = "forward" =>
            /\ (pc[w] \in ApiPcs /\ api[w].method = "forwardMessage")
                 => (IsTelegram(out[w].protocol) /\ ~out[w].relayed)
            /\ ~IsTelegram(out[w].protocol) => (out[w].relayed /\ out[w].native = "none")
            /\ out[w].native = "BotAPIFailed" => out[w].relayed
            /\ out[w].native = "TransportError" =>
                 /\ ~out[w].relayed
                 /\ pc[w] = "op_done"
                 /\ res[w].kind = "TransportError"
            /\ out[w].native = "ok" => ~out[w].relayed
            /\ (out[w].relayed /\ pc[w] \in ApiPcs /\ api[w].method # "getFile")
                 => (api[w].method = "sendMessage" /\ api[w].chat_id = DestId)
            /\ (~out[w].relayed /\ pc[w] \in ApiPcs)
                 => api[w].method \in {"forwardMessage", "getFile"}

\* the native forward was refused by the remote API and the relay is on its
\* way to the destination chat
C8_Witness ==
    \E w \in Workers :
        /\ out[w].op = "forward"
        /\ out[w].native = "BotAPIFailed"
        /\ run
        /\ pc[w] = "api_http"
        /\ api[w].method = "sendMessage"
        /\ api[w].chat_id = DestId

MediaErrors == {"TypeError", "NotImplementedError", "BotAPIFailed",
                "TransportError", "Exception"}

\* C9: a failure of getFile (transport error, remote API error, no
\* file_path) or of paste_url never leaves servemedia: the description is
\* the one built before the link (no link segment), _make_message returns a
\* Message, and start_polling is not ended by such a failure.
C9_MediaNeverRaises ==
    /\ poll.error \notin MediaErrors
    /\ \A t \in Threads :
         /\ mm[t].desc.fault # "none" =>
              /\ mm[t].desc = [Describe(mm[t].obj.media) EXCEPT !.fault = mm[t].desc.fault]
              /\ pc[t] \in {"mm_reply", "post", "op_done"}
              /\ pc[t] \in {"post", "op_done"} => res[t].kind = "ok"
         /\ (res[t].kind = "ok" /\ pc[t] \in {"post", "op_done"}
               /\ res[t].val.alttext.fault # "none") =>
              /\ ~res[t].val.alttext.link
              /\ res[t].val.alttext.tag = res[t].val.media
         /\ pc[t] \in {"post", "op_done"} => res[t].kind \notin MediaErrors

\* getFile failed for a photo and the Message, described as "<photo>"
\* without a link, is about to be posted
C9_Witness ==
    /\ pc["poll"] = "post"
    /\ res["poll"].kind = "ok"
    /\ res["poll"].val.media = "photo"
    /\ res["poll"].val.alttext.fault = "getFile"
    /\ ~res["poll"].val.alttext.link

\* the markup characters of a string that no backslash precedes
RECURSIVE Unescaped(_, _)
Unescaped(x, prev) ==
    IF x = <<>> THEN <<>>
    ELSE (IF Head(x) \in {"*", "_"} /\ prev # "\\" THEN <<Head(x)>> ELSE <<>>)
         \o Unescaped(Tail(x), Head(x))

\* every span is opened and closed by the same character, none is left open
Balanced(m) ==
    /\ Len(m) % 2 = 0
    /\ \A k \in 1..(Len(m) \div 2) : m[2 * k - 1] = m[2 * k]

\* C10: a reset byte leaves all five toggles inactive and no span open, no
\* span is open after the end of the input, and the unescaped markup
\* characters of the output are balanced.
C10_Balanced ==
    /\ (fmt.i > 1 /\ fmt.chunks[fmt.i - 1] = <<"O">> /\ ~fmt.done) =>
          (fmt.code = "" /\ \A k \in 1..5 : ~fmt.state[k])
    /\ fmt.done => Balanced(Unescaped(fmt.ret, ""))

\* C11: every way out of bot_api (result returned, BotAPIFailed for an
\* ok = false envelope, BotAPIFailed for the abort at shutdown, transport
\* error after the last attempt) stores the completion time in last_sent.
C11_LastSentEveryOutcome ==
    [][\A t \in Threads :
          (pc[t] \in ApiPcs /\ pc'[t] \notin ApiPcs) => since_sent' = 0]_vars

\* C12: a failure raised while a received batch is handled (_make_message
\* failing on a payload, bus.post failing) does not end start_polling: the
\* loop is never left by such an exception.
C12_BatchFailureContinues ==
    ~(pc["poll"] = "crashed" /\ poll.error \in {"KeyError", "post"})

PollHasFailed == pc["poll"] = "got_updates" /\ res["poll"].kind # "ok"

\* C13: a getUpdates call that raised (transport error after the retries,
\* or BotAPIFailed for an ok = false envelope) leaves the cursor as it is
\* and takes the loop back to its top; unless close() is called, the loop
\* then calls getUpdates again.
C13_FailedPollRetried ==
    /\ [][PollHasFailed =>
            /\ offset' = offset
            /\ pc'["poll"] \in {"got_updates", "loop_top"}]_vars
    /\ (PollHasFailed /\ run) ~>
          (~run \/ (pc["poll"] = "api_top" /\ api["poll"].method = "getUpdates"
                    /\ api["poll"].reqs = 0))

\* after a stored batch a poll failed and the loop is back at its top with
\* the cursor of that batch
C13_Witness ==
    /\ pc["poll"] = "loop_top"
    /\ run
    /\ poll.last = "failed"
    /\ offset > 0

\* 0.2 s in ticks
FixedDelay == (2 * TicksPerSecond) \div 10

\* the step that issues a getUpdates poll after an earlier iteration
NextPoll ==
    pc["poll"] = "loop_top" /\ pc'["poll"] = "api_top" /\ poll.last # "none"

\* C14 as stated: whatever the outcome of an iteration (non-empty batch,
\* empty batch, failed poll), at least 0.2 s pass between its end and the
\* next getUpdates poll.
C14_IdleDelayAlways ==
    [][NextPoll => hist["poll"].iter >= FixedDelay]_vars

\* C14 amended: after an iteration whose poll returned a list (empty or
\* not) the next poll is issued no earlier than 0.2 s after the end of the
\* iteration, and the loop gets back to its top only through that sleep;
\* after a failed poll the next poll is issued without any idle delay.
C14_IdleDelayAfterBatch ==
    [][/\ NextPoll =>
            /\ poll.last \in {"empty", "batch"} => hist["poll"].iter >= FixedDelay
            /\ poll.last = "failed" => hist["poll"].iter < FixedDelay
       /\ (pc'["poll"] = "loop_top" /\ pc["poll"] # "loop_top") =>
            \/ pc["poll"] = "got_me"
            \/ pc["poll"] = "idle" /\ hist["poll"].iter >= FixedDelay
            \/ PollHasFailed]_vars

\* the idle delay after a stored batch is over and the loop is about to
\* poll again
C14_Witness ==
    /\ pc["poll"] = "loop_top"
    /\ run
    /\ poll.last = "batch"
    /\ hist["poll"].iter = FixedDelay

\* C15: once close() has been called, a bot_api call that is in its retry
\* sequence starts no retry sleep, replaces no session and posts no further
\* request.
C15_AbortOnClose ==
    [][\A t \in Threads :
          (~run /\ InCall(t) /\ InCall(t)') =>
             /\ ~(pc[t] # "api_sleep" /\ pc'[t] = "api_sleep")
             /\ api'[t].sess = api[t].sess
             /\ api'[t].reqs = api[t].reqs]_vars

PollEnded == pc["poll"] \in {"done", "crashed"}

\* C16: after close(), with every sleep ending and every network call
\* returning or timing out, start_polling eventually ends (it returns, or
\* an exception leaves it); when the loop test finds self.run false the
\* function returns, and once it has returned it does nothing more.
C16_TerminatesAfterClose ==
    /\ (~run) ~> PollEnded
    /\ [][/\ (pc["poll"] = "loop_top" /\ ~run /\ pc'["poll"] # "loop_top")
               => pc'["poll"] = "done"
          /\ PollEnded => (pc'["poll"] = pc["poll"] /\ offset' = offset
                           /\ posted' = posted /\ api'["poll"] = api["poll"])]_vars

\* a batch was stored, a later poll failed, close() was called and
\* start_polling has returned
C16_Witness ==
    /\ pc["poll"] = "done"
    /\ ~run
    /\ poll.last = "failed"
    /\ offset > 0

\* C17 as stated: while neither the bold nor the italic toggle is active (so
\* only reverse, underline or color can be), no markup span is open.
C17_OnlyBoldItalicStyled ==
    (~fmt.state[1] /\ ~fmt.state[3]) => fmt.code = ""

\* C17 amended: the open span is the one of the first active toggle in the
\* order bold, reverse, italic, underline, color: bold, reverse and color
\* open a "*" span, italic and underline a "_" span, and no span is open
\* when no toggle is active.
C17_StyleOfFirstToggle ==
    fmt.code = IF fmt.state[1] \/ fmt.state[2] THEN "*"
               ELSE IF fmt.state[3] \/ fmt.state[4] THEN "_"
               ELSE IF fmt.state[5] THEN "*"
               ELSE ""

\* a reverse toggle before a literal: the text comes out as a bold span
C17_Witness ==
    /\ fmt.done
    /\ fmt.s = <<"V", "a">>
    /\ fmt.ret = <<"*", "a", "*">>

\* a bot_api call that was entered after close()
LateCall(t) == api[t].method # "none" /\ ~api[t].live

\* C18: a bot_api call entered after close() posts no request, receives
\* nothing, replaces no session and raises BotAPIFailed to its caller; and
\* self.run, once false, stays false.
C18_NoCallAfterClose ==
    /\ [](\A t \in Threads :
            LateCall(t) =>
               /\ ~run
               /\ api[t].reqs = 0 /\ api[t].sess = 0 /\ ~api[t].got
               /\ pc[t] \in ApiPcs => pc[t] \in {"api_top", "api_exit"}
               /\ pc[t] \notin ApiPcs => res[t].kind = "BotAPIFailed")
    /\ [][~run => ~run']_vars

\* a send or forward started after close() has got BotAPIFailed from
\* bot_api without any request
C18_Witness ==
    /\ ~run
    /\ pc["out"] = "sent"
    /\ LateCall("out")
    /\ api["out"].reqs = 0
    /\ res["out"].kind = "BotAPIFailed"

\* C19: self.dest is replaced only by _make_message, with the chat of a
\* payload whose id is the current destination id, so dest.pid is always the
\* configured id; a message is 'group' exactly when its chat id is that id,
\* else 'private' when its chat is a user, else 'othergroup'.
C19_DestKept ==
    /\ [](/\ dest.pid = DestId
          /\ \A t \in Threads :
               (mm[t].obj.valid /\ mm[t].mtype # "none") =>
                  mm[t].mtype = IF mm[t].obj.chat.id = DestId THEN "group"
                                ELSE IF mm[t].obj.chat.type = "private" THEN "private"
                                ELSE "othergroup")
    /\ [][dest' # dest =>
            \E t \in Threads :
               /\ pc[t] = "mm_begin" /\ mm[t].obj.valid
               /\ mm[t].obj.chat.id = dest.pid
               /\ dest' = make_user(mm[t].obj.chat)]_vars

\* an inbound message of the destination chat has replaced the stored User
\* (the title has changed) and is about to be posted as a group message
C19_Witness ==
    /\ dest.name = "renamed"
    /\ pc["poll"] = "post"
    /\ res["poll"].kind = "ok"
    /\ res["poll"].val.mtype = "group"
    /\ res["poll"].val.chat = DestId

\* C20: the cursor never decreases (the remote API returns only updates
\* whose id is at least the requested offset); it changes only in the step
\* of start_polling that ends a non-empty batch; an empty batch, a failed
\* poll and every step of a bus worker (send, forward, status) leave it as
\* it is.
C20_CursorFrame ==
    [][/\ offset' >= offset
       /\ offset' # offset =>
            (pc["poll"] = "batch" /\ pc'["poll"] = "idle" /\ poll.updates # <<>>)
       /\ (pc["poll"] = "got_updates" /\ pc'["poll"] \in {"idle", "loop_top"})
            => offset' = offset
       /\ (\E w \in Workers : pc'[w] # pc[w] \/ api'[w] # api[w])
            => offset' = offset]_vars

\* a second batch has moved the cursor further, and the poll after it has
\* returned an empty list
C20_Witness ==
    /\ offset > 1
    /\ pc["poll"] = "idle"
    /\ poll.last = "empty"

====
